---------------------------- MODULE Spec2Model ----------------------------
(***************************************************************************)
(* The fused mixture-of-experts forward pass of                            *)
(* lmdeploy/pytorch/kernels/cuda/fused_moe.py as a state machine.          *)
(*                                                                         *)
(* Tensors are functions over 0-based indices, as in the source.           *)
(* Arithmetic is exact (integers and fractions): float32 rounding and the  *)
(* cast back to the storage type are not modelled.                         *)
(***************************************************************************)
EXTENDS Integers, FiniteSets, Sequences, TLC

VARIABLES
    pc,            \* position of the call: "sort", "start_end", ...
    topk_ids,      \* flatten_topk_ids: [0..L-1 -> expert id]
    num_experts,   \* num_experts (global expert count)
    se_block,      \* BLOCK of _start_end_kernel
    sorted_idx,    \* sorted_idx: [0..L-1 -> flat index]
    exp_start,     \* start_end[0, :], domain = rows stored so far
    exp_end,       \* start_end[1, :], domain = rows stored so far
    t_in,          \* TileScheduler specification: the kernel's constexprs
    t_map,         \* TileScheduler specification: pid -> the tile it took
    plan,          \* the caller's calls of fused_moe: <<[E, expert_offset], ...>>
    call_no,       \* the call of plan being made
    outs,          \* the tensors the finished calls returned
    segs,          \* sorted_idx, exp_start, exp_end of the finished calls
    hidden_states, \* [<<token, k>> -> value], caller-owned
    w1,            \* [<<local expert, n, k>> -> value], caller-owned
    w2,            \* [<<local expert, n, k>> -> value], caller-owned
    topk_weights,  \* [<<token, slot>> -> value], caller-owned
    topk,          \* argument topk
    expert_offset, \* argument expert_offset
    renormalize,   \* argument renormalize
    weights,       \* fused_moe's local topk_weights after _renormalize, flat
    launch,        \* constexprs of the kernel launch in flight
    done,          \* programs <<exp_id, pid>> of the launch that have finished
    writers,       \* [element of C -> the programs that stored to it]
    log,           \* [program -> the indices it loaded and stored]
    cache1,        \* intermediate_cache1, rows flattened
    gate_cache,    \* gate_cache, rows flattened
    cache2,        \* intermediate_cache2, rows flattened
    ret            \* the tensor the call returns

seg_vars == <<topk_ids, num_experts, se_block, sorted_idx, exp_start, exp_end>>
tile_vars == <<t_in, t_map>>
\* the caller's side of a call
caller_vars == <<plan, call_no, outs, segs, hidden_states, w1, w2, topk_weights, topk,
                 expert_offset, renormalize>>
\* what fused_moe and its kernels own
call_vars == <<weights, launch, done, writers, log, cache1, gate_cache, cache2, ret>>
vars == <<pc, seg_vars, tile_vars, caller_vars, call_vars>>

---------------------------------------------------------------------------
(* Bounds of the model *)

\* longest flat assignment sequence of the SegmentBuilder specification
MaxLen == 4
\* largest global expert count of the SegmentBuilder specification
MaxSegExperts == 3

\* TileScheduler specification: largest M_NP2, largest N, largest GROUP_SIZE_M
MaxTileRows == 5
MaxTileCols == 3
MaxGroup == 3
\* tile edge lengths (BLOCK_SIZE_M, BLOCK_SIZE_N) the TileScheduler
\* specification draws
TileBlocks == {1, 2}

\* fused_moe calls: most tokens, largest top_k, most experts
MaxTokens == 2
MaxTopK == 2
MaxExperts == 2
\* hidden size (K of the gate/up pass, N of the down pass) and ffn size (the
\* gate/up pass has N = 2 * FFN, the down pass K = FFN)
HIDDEN == 3
FFN == 1
\* largest token count the launcher's M_NP2 is computed for on its own
MaxLaunchTokens == 9
\* the launcher's floor on M_NP2, max(64, .) in the source, scaled down with
\* the tile sizes so that a launch keeps a handful of row-tiles
M_NP2_MIN == 2
\* the tile configurations autotuning picks from (get_cuda_autotune_config),
\* scaled down: one row-tile or two, one column-tile or two, BLOCK_SIZE_N
\* dividing N or not, BLOCK_SIZE_K dividing K or not, both GROUP_SIZE_M
\* branches
KernelConfigs ==
    {[BLOCK_SIZE_M |-> 2, BLOCK_SIZE_N |-> 2, BLOCK_SIZE_K |-> 2, GROUP_SIZE_M |-> 1],
     [BLOCK_SIZE_M |-> 1, BLOCK_SIZE_N |-> 4, BLOCK_SIZE_K |-> 1, GROUP_SIZE_M |-> 2]}

\* BLOCK = 128 in get_start_end
BLOCK == 128
\* block sizes the SegmentBuilder specification runs _start_end_kernel with:
\* the source's, and two that split the scan into several blocks
SegBlocks == {1, 3, BLOCK}

---------------------------------------------------------------------------
(* Helpers *)

Min(a, b) == IF a < b THEN a ELSE b
Max(a, b) == IF a > b THEN a ELSE b
\* triton.cdiv / tl.cdiv
cdiv(a, b) == (a + b - 1) \div b
\* numel of a flat tensor
numel(f) == Cardinality(DOMAIN f)
\* the empty tensor / a buffer nothing was stored to yet
Empty == [i \in {} |-> 0]

---------------------------------------------------------------------------
(* SegmentBuilder: _get_sorted_idx, get_start_end, _start_end_kernel *)

\* a sort that leaves the flat indices in their original order
Argsort_unsorted(ids) == {[i \in DOMAIN ids |-> i]}

\* torch.argsort (stable=False): every permutation of the flat indices
\* that puts the keys in ascending order is a result it may return; equal
\* keys come out in any order.  SortedOrders builds those orders (as
\* sequences) by taking, each time, any of the remaining indices with the
\* least key.
RECURSIVE SortedOrders(_, _)
SortedOrders(ids, rest) ==
    IF rest = {} THEN {<<>>}
    ELSE LET least == {i \in rest : \A j \in rest : ids[i] <= ids[j]}
         IN UNION {{<<i>> \o r : r \in SortedOrders(ids, rest \ {i})} : i \in least}

Argsort(ids) ==
    {[j \in DOMAIN ids |-> s[j + 1]] : s \in SortedOrders(ids, DOMAIN ids)}

\* tl.argmax(tidx_mask, axis=0) of a 0/1 mask given as the set of its lanes
\* holding 1: the first lane holding the maximum (lane 0 when none holds 1)
argmax(hit) ==
    IF hit = {} THEN 0 ELSE CHOOSE l \in hit : \A m \in hit : l <= m

\* the loop body taking the block's first lane for the first match
start_end_block_first_lane(TopkIdx, SortedIdx, len_sorted_idx, ne, BLK, exp_id, sidx_start, st) ==
    LET lanes == 0..(BLK - 1)
        hits == {l \in lanes : sidx_start + l < len_sorted_idx
                                /\ TopkIdx[SortedIdx[sidx_start + l]] = exp_id}
        cnt == st.cnt + Cardinality(hits)
    IN [cnt |-> cnt,
        exp_start |-> IF cnt > 0 /\ st.exp_start < 0 THEN sidx_start
                      ELSE st.exp_start]

\* one iteration of the "find start" loop, from the loop state st =
\* [cnt, exp_start]
start_end_block(TopkIdx, SortedIdx, len_sorted_idx, ne, BLK, exp_id, sidx_start, st) ==
    LET lanes == 0..(BLK - 1)
        sidx_off(l) == sidx_start + l
        sidx_mask(l) == sidx_off(l) < len_sorted_idx
        sidx(l) == IF sidx_mask(l) THEN SortedIdx[sidx_off(l)] ELSE 0
        tidx(l) == IF sidx_mask(l) THEN TopkIdx[sidx(l)] ELSE ne
        tidx_mask == {l \in lanes : tidx(l) = exp_id}
        cnt == st.cnt + Cardinality(tidx_mask)
    IN [cnt |-> cnt,
        exp_start |-> IF cnt > 0 /\ st.exp_start < 0
                      THEN sidx_start + argmax(tidx_mask)
                      ELSE st.exp_start]

RECURSIVE start_end_loop(_, _, _, _, _, _, _, _)
start_end_loop(TopkIdx, SortedIdx, len_sorted_idx, ne, BLK, exp_id, sidx_start, st) ==
    IF sidx_start >= len_sorted_idx THEN st
    ELSE start_end_loop(TopkIdx, SortedIdx, len_sorted_idx, ne, BLK, exp_id,
                        sidx_start + BLK,
                        start_end_block(TopkIdx, SortedIdx, len_sorted_idx, ne,
                                        BLK, exp_id, sidx_start, st))

\* the -1 sentinel is left in place when nothing matched
no_match_start_kept(exp_start0) == exp_start0

\* the value an expert with no match leaves exp_start at ("exp_start *= 0")
no_match_start(exp_start0) == exp_start0 * 0

\* program exp_id of _start_end_kernel: the pair it stores to
\* ExpStart[exp_id] and ExpEnd[exp_id]
start_end_kernel(TopkIdx, SortedIdx, len_sorted_idx, ne, BLK, exp_id) ==
    LET st == start_end_loop(TopkIdx, SortedIdx, len_sorted_idx, ne, BLK, exp_id,
                             0, [cnt |-> 0, exp_start |-> -1])
        es == IF st.exp_start < 0 THEN no_match_start(st.exp_start) ELSE st.exp_start
    IN [exp_start |-> es, exp_end |-> es + st.cnt]

\* the docstring of get_start_end:
\*   exp_tok_cnt = F.one_hot(flatten_topk_ids, num_classes=E).sum(0)
\*   exp_end = exp_tok_cnt.cumsum(0); exp_start = exp_end - exp_tok_cnt
exp_tok_cnt(ids, e) == Cardinality({i \in DOMAIN ids : ids[i] = e})
docstring_exp_end(ids, e) == Cardinality({i \in DOMAIN ids : ids[i] <= e})
docstring_exp_start(ids, e) == docstring_exp_end(ids, e) - exp_tok_cnt(ids, e)

---------------------------------------------------------------------------
(* Actions of _get_sorted_idx *)

\* flatten_topk_ids.argsort(), then get_start_end allocates start_end and
\* launches the grid (num_experts, )
GetSortedIdx ==
    /\ pc = "sort"
    /\ \E p \in Argsort(topk_ids) : sorted_idx' = p
    /\ exp_start' = Empty
    /\ exp_end' = Empty
    /\ pc' = "start_end"
    /\ UNCHANGED <<topk_ids, num_experts, se_block, tile_vars, caller_vars, call_vars>>

\* one program of the _start_end_kernel grid
StartEndProgram(exp_id) ==
    /\ pc = "start_end"
    /\ exp_id \notin DOMAIN exp_start
    /\ LET r == start_end_kernel(topk_ids, sorted_idx, numel(sorted_idx),
                                 num_experts, se_block, exp_id)
       IN /\ exp_start' = [e \in DOMAIN exp_start \cup {exp_id} |->
                              IF e = exp_id THEN r.exp_start ELSE exp_start[e]]
          /\ exp_end' = [e \in DOMAIN exp_end \cup {exp_id} |->
                              IF e = exp_id THEN r.exp_end ELSE exp_end[e]]
    /\ UNCHANGED <<pc, topk_ids, num_experts, se_block, sorted_idx, tile_vars,
                   caller_vars, call_vars>>

\* get_start_end has returned: every program of the grid has stored
SegmentsBuilt ==
    /\ pc = "start_end"
    /\ DOMAIN exp_start = 0..(num_experts - 1)

---------------------------------------------------------------------------
(* The SegmentBuilder specification: _get_sorted_idx on every flat         *)
(* assignment sequence up to MaxLen over up to MaxSegExperts experts       *)

\* the variables of the TileScheduler specification, unused
TileIdle ==
    /\ t_in = Empty
    /\ t_map = Empty

\* no call of fused_moe is made
CallIdle ==
    /\ plan = <<>>
    /\ call_no = 0
    /\ outs = <<>>
    /\ segs = <<>>
    /\ hidden_states = Empty
    /\ w1 = Empty
    /\ w2 = Empty
    /\ topk_weights = Empty
    /\ topk = 0
    /\ expert_offset = 0
    /\ renormalize = FALSE
    /\ weights = Empty
    /\ launch = Empty
    /\ done = {}
    /\ writers = Empty
    /\ log = Empty
    /\ cache1 = Empty
    /\ gate_cache = Empty
    /\ cache2 = Empty
    /\ ret = Empty

InitSeg ==
    /\ pc = "sort"
    /\ TileIdle
    /\ CallIdle
    /\ num_experts \in 1..MaxSegExperts
    /\ \E L \in 0..MaxLen : topk_ids \in [0..(L - 1) -> 0..(num_experts - 1)]
    /\ se_block \in SegBlocks
    /\ sorted_idx = Empty
    /\ exp_start = Empty
    /\ exp_end = Empty

NextSeg ==
    \/ GetSortedIdx
    \/ \E e \in 0..(num_experts - 1) : StartEndProgram(e)

SpecSeg == InitSeg /\ [][NextSeg]_vars

---------------------------------------------------------------------------
(* TileScheduler: the pid -> (pid_m, pid_n) mapping of fused_moe_kernel *)

\* a last group taken to be as tall as every other
group_size_m_full(num_pid_m, first_pid_m, GROUP_SIZE_M) == GROUP_SIZE_M

\* group_size_m = min(num_pid_m - first_pid_m, GROUP_SIZE_M)
group_size_m(num_pid_m, first_pid_m, GROUP_SIZE_M) ==
    Min(num_pid_m - first_pid_m, GROUP_SIZE_M)

\* lines 88-97: the tile of program pid
tile_of(pid, num_pid_m, num_pid_n, GROUP_SIZE_M) ==
    IF GROUP_SIZE_M = 1
    THEN [pid_m |-> pid % num_pid_m, pid_n |-> pid \div num_pid_m]
    ELSE LET num_pid_in_group == GROUP_SIZE_M * num_pid_n
             group_id == pid \div num_pid_in_group
             first_pid_m == group_id * GROUP_SIZE_M
             gsm == group_size_m(num_pid_m, first_pid_m, GROUP_SIZE_M)
         IN [pid_m |-> first_pid_m + (pid % gsm),
             pid_n |-> (pid % num_pid_in_group) \div gsm]

\* the guard compares the end of the row tile, not its start
tile_skipped_by_end(pid_m, pid_n, M, N, BLOCK_SIZE_M, BLOCK_SIZE_N) ==
    (pid_m + 1) * BLOCK_SIZE_M >= M \/ pid_n * BLOCK_SIZE_N >= N

\* line 99: the tile lies outside the expert's M x N output
tile_skipped(pid_m, pid_n, M, N, BLOCK_SIZE_M, BLOCK_SIZE_N) ==
    pid_m * BLOCK_SIZE_M >= M \/ pid_n * BLOCK_SIZE_N >= N

\* _grid_fn: the number of programs per expert
grid_pids(M_NP2, N, BLOCK_SIZE_M, BLOCK_SIZE_N) ==
    cdiv(M_NP2, BLOCK_SIZE_M) * cdiv(N, BLOCK_SIZE_N)

\* lines 81-100 of one program: the tile it takes and whether it goes on to
\* compute (M is the expert's segment length)
tile_program(pid, M, N, M_NP2, BLOCK_SIZE_M, BLOCK_SIZE_N, GROUP_SIZE_M) ==
    LET num_pid_m == cdiv(M_NP2, BLOCK_SIZE_M)
        num_pid_n == cdiv(N, BLOCK_SIZE_N)
        t == tile_of(pid, num_pid_m, num_pid_n, GROUP_SIZE_M)
    IN [pid_m |-> t.pid_m, pid_n |-> t.pid_n,
        works |-> M > 0 /\ ~tile_skipped(t.pid_m, t.pid_n, M, N,
                                         BLOCK_SIZE_M, BLOCK_SIZE_N)]

\* the next program of one expert's grid row takes its tile
TileProgram ==
    /\ pc = "tiles"
    /\ LET pid == numel(t_map)
       IN /\ pid < grid_pids(t_in.M_NP2, t_in.N, t_in.BLOCK_SIZE_M, t_in.BLOCK_SIZE_N)
          /\ t_map' = [q \in 0..pid |->
                          IF q = pid
                          THEN tile_program(pid, t_in.M, t_in.N, t_in.M_NP2,
                                            t_in.BLOCK_SIZE_M, t_in.BLOCK_SIZE_N,
                                            t_in.GROUP_SIZE_M)
                          ELSE t_map[q]]
    /\ UNCHANGED <<pc, seg_vars, t_in, caller_vars, call_vars>>

\* the variables of the SegmentBuilder, unused
SegIdle ==
    /\ topk_ids = Empty
    /\ num_experts = 0
    /\ se_block = BLOCK
    /\ sorted_idx = Empty
    /\ exp_start = Empty
    /\ exp_end = Empty

\* the TileScheduler specification: one expert's programs, for every shape
\* and tile configuration within the bounds and every segment length M
InitTile ==
    /\ pc = "tiles"
    /\ SegIdle
    /\ CallIdle
    /\ \E M_NP2 \in 1..MaxTileRows, N \in 1..MaxTileCols, G \in 1..MaxGroup,
          BM \in TileBlocks, BN \in TileBlocks :
          \E M \in 0..M_NP2 :
             t_in = [M |-> M, N |-> N, M_NP2 |-> M_NP2, BLOCK_SIZE_M |-> BM,
                     BLOCK_SIZE_N |-> BN, GROUP_SIZE_M |-> G]
    /\ t_map = Empty

NextTile == TileProgram

SpecTile == InitTile /\ [][NextTile]_vars

---------------------------------------------------------------------------
(* Tensor values.  An element is a fraction [n, d]; d = 0 marks an element *)
(* of a torch.empty buffer nothing was stored to: its value is arbitrary,  *)
(* and so is every value computed from it.                                 *)

FInt(i) == [n |-> i, d |-> 1]
FZero == FInt(0)
Stale == [n |-> 0, d |-> 0]
IsStale(a) == a.d = 0
FAdd(a, b) ==
    IF IsStale(a) \/ IsStale(b) THEN Stale
    ELSE IF a.d = b.d THEN [n |-> a.n + b.n, d |-> a.d]
    ELSE [n |-> a.n * b.d + b.n * a.d, d |-> a.d * b.d]
FMul(a, b) ==
    IF IsStale(a) \/ IsStale(b) THEN Stale
    ELSE [n |-> a.n * b.n, d |-> a.d * b.d]
\* equal as numbers; an arbitrary value equals nothing
FEq(a, b) == ~IsStale(a) /\ ~IsStale(b) /\ a.n * b.d = b.n * a.d

\* f[0] + ... + f[n - 1]
RECURSIVE FSumTo(_, _)
FSumTo(f, n) == IF n = 0 THEN FZero ELSE FAdd(FSumTo(f, n - 1), f[n - 1])

\* the buffer is never zero-filled
make_intermediate_empty(shape, zeros) == [x \in shape |-> Stale]

\* torch.zeros / torch.empty of the given index set
make_intermediate(shape, zeros) ==
    [x \in shape |-> IF zeros THEN FZero ELSE Stale]

\* a load from tensor T at idx; outside the allocation the value is arbitrary
Read(T, idx) == IF idx \in DOMAIN T THEN T[idx] ELSE Stale
\* a load from an index tensor; outside the allocation the program's
\* behaviour is undefined (the caller checks), 0 stands in
ReadIdx(T, i) == IF i \in DOMAIN T THEN T[i] ELSE 0

---------------------------------------------------------------------------
(* fused_moe_kernel: program (exp_id, pid), k = the launch's arguments *)

\* the accumulator element (row lane, column offs_bn) gains from K-block kb:
\* a and b are loaded under their masks (other=0.0) and multiplied by tl.dot
dot_block(k, exp_id, mask_l, am, bn, kb) ==
    LET rem == k.K - kb * k.BLOCK_SIZE_K
        a(q) == IF mask_l /\ q < rem
                THEN Read(k.A, <<am, kb * k.BLOCK_SIZE_K + q>>) ELSE FZero
        b(q) == IF q < rem
                THEN Read(k.B, <<exp_id, bn, kb * k.BLOCK_SIZE_K + q>>) ELSE FZero
    IN FSumTo([q \in 0..(k.BLOCK_SIZE_K - 1) |-> FMul(a(q), b(q))], k.BLOCK_SIZE_K)

\* for k in range(0, tl.cdiv(K, BLOCK_SIZE_K))
RECURSIVE k_loop(_, _, _, _, _, _, _)
k_loop(k, exp_id, mask_l, am, bn, kb, accumulator) ==
    IF kb >= cdiv(k.K, k.BLOCK_SIZE_K) THEN accumulator
    ELSE k_loop(k, exp_id, mask_l, am, bn, kb + 1,
                FAdd(accumulator, dot_block(k, exp_id, mask_l, am, bn, kb)))

\* the column offsets are not wrapped modulo N
offs_bn_unwrapped(pid_n, j, BLOCK_SIZE_N, N) == pid_n * BLOCK_SIZE_N + j

\* offs_bn = (pid_n * BLOCK_SIZE_N + tl.arange(0, BLOCK_SIZE_N)) % N, lane j
offs_bn(pid_n, j, BLOCK_SIZE_N, N) == (pid_n * BLOCK_SIZE_N + j) % N

\* the row of A is the sorted position in both passes
offs_am_sorted(reindex_a, sid, offs_sid, top_k) == offs_sid

\* the row of A lane l reads: the token's row, or the sorted position
offs_am(reindex_a, sid, offs_sid, top_k) ==
    IF reindex_a THEN sid \div top_k ELSE offs_sid

\* the gating weight is applied whatever ENABLE_WEIGHTS says
apply_weight_always(ENABLE_WEIGHTS, accumulator, weight) == FMul(accumulator, weight)

\* lines 128-130
apply_weight(ENABLE_WEIGHTS, accumulator, weight) ==
    IF ENABLE_WEIGHTS THEN FMul(accumulator, weight) ELSE accumulator

\* exp_off = stride_be * exp_id: the expert whose matrix B the program reads
expert_of_b(exp_id, E) == exp_id

\* the program reads the bounds at its local expert id
segment_row_local(exp_id, expert_off) == exp_id

\* ExpStart + exp_id + expert_offset: the row of the segment table the
\* program reads its bounds from
segment_row(exp_id, expert_off) == exp_id + expert_off

\* What one program does: ub (a load or store outside its tensor), works
\* (it got past both early returns), the indices it loads per tensor, and
\* the elements it stores to C as <<row, column, value>>.
fused_moe_kernel(k, exp_id, pid) ==
    LET BM == k.BLOCK_SIZE_M
        BN == k.BLOCK_SIZE_N
        seg == segment_row(exp_id, k.expert_offset)
        seg_ok == seg \in DOMAIN k.ExpStart /\ seg \in DOMAIN k.ExpEnd
        e_start == ReadIdx(k.ExpStart, seg)
        e_end == ReadIdx(k.ExpEnd, seg)
        M == e_end - e_start
        t == tile_program(pid, M, k.N, k.M_NP2, BM, BN, k.GROUP_SIZE_M)
        works == seg_ok /\ t.works
        offs_sid(l) == e_start + t.pid_m * BM + l
        mask_sid(l) == offs_sid(l) < e_end
        active == IF works THEN {l \in 0..(BM - 1) : mask_sid(l)} ELSE {}
        cols == IF works THEN 0..(BN - 1) ELSE {}
        sid(l) == IF mask_sid(l) THEN ReadIdx(k.SortedIdx, offs_sid(l)) ELSE 0
        am(l) == offs_am(k.reindex_a, sid(l), offs_sid(l), k.top_k)
        bn(j) == offs_bn(t.pid_n, j, BN, k.N)
        eb == expert_of_b(exp_id, k.E)
        weight(l) == Read(k.Weights, sid(l))
        c(l, j) == apply_weight(k.ENABLE_WEIGHTS,
                                k_loop(k, eb, mask_sid(l), am(l), bn(j), 0, FZero),
                                weight(l))
        offs_cm(l) == IF k.reindex_c THEN sid(l) ELSE offs_sid(l)
        loads == [ExpStart |-> {seg},
                  ExpEnd |-> {seg},
                  SortedIdx |-> {offs_sid(l) : l \in active},
                  A |-> {<<am(l), kk>> : l \in active, kk \in 0..(k.K - 1)},
                  B |-> {<<eb, bn(j), kk>> : j \in cols, kk \in 0..(k.K - 1)},
                  Weights |-> IF k.ENABLE_WEIGHTS
                              THEN {sid(l) : l \in active} ELSE {}]
        stores == {<<offs_cm(l), bn(j), c(l, j)>> : l \in active, j \in cols}
    IN [ub |-> \/ ~seg_ok
               \/ \E i \in loads.SortedIdx : i \notin DOMAIN k.SortedIdx
               \/ \E x \in loads.A : x \notin DOMAIN k.A
               \/ \E x \in loads.B : x \notin DOMAIN k.B
               \/ \E i \in loads.Weights : i \notin DOMAIN k.Weights
               \/ \E st \in stores : <<st[1], st[2]>> \notin DOMAIN k.C,
        works |-> works,
        loads |-> loads,
        stores |-> stores]

\* C after the program's stores (lanes of one program that store to the
\* same element store the same value)
store_all(C, stores) ==
    [x \in DOMAIN C |->
        IF \E st \in stores : <<st[1], st[2]>> = x
        THEN (CHOOSE st \in stores : <<st[1], st[2]>> = x)[3]
        ELSE C[x]]

\* triton.next_power_of_2
RECURSIVE next_power_of_2_from(_, _)
next_power_of_2_from(n, p) == IF p >= n THEN p ELSE next_power_of_2_from(n, 2 * p)
next_power_of_2(n) == next_power_of_2_from(n, 1)

---------------------------------------------------------------------------
(* The caller's tensors *)

\* the values of the caller's tensors: small integers, different from
\* token to token, expert to expert and column to column
hidden_value(t, k) == 1 + ((t + 2 * k) % 3)
w1_value(e, n, k) == 1 + ((2 * e + n + k) % 3) - (IF (e + k) % 2 = 1 THEN 3 ELSE 0)
w2_value(e, n, k) == 1 + ((e + 2 * n + k) % 3) + (IF e % 2 = 1 THEN 1 ELSE 0)
topk_weight_value(t, s) == 1 + ((2 * t + s) % 3)

hidden_states_of(ntok) ==
    [x \in (0..(ntok - 1)) \X (0..(HIDDEN - 1)) |-> FInt(hidden_value(x[1], x[2]))]
topk_weights_of(ntok, top_k) ==
    [x \in (0..(ntok - 1)) \X (0..(top_k - 1)) |-> FInt(topk_weight_value(x[1], x[2]))]
\* the weights of the E experts from global expert off on
w1_of(E, off) ==
    [x \in (0..(E - 1)) \X (0..(2 * FFN - 1)) \X (0..(HIDDEN - 1)) |->
        FInt(w1_value(x[1] + off, x[2], x[3]))]
w2_of(E, off) ==
    [x \in (0..(E - 1)) \X (0..(HIDDEN - 1)) \X (0..(FFN - 1)) |->
        FInt(w2_value(x[1] + off, x[2], x[3]))]

\* T.size(i) / T.shape[i], i counted from 1
size(T, i) == Cardinality({x[i] : x \in DOMAIN T})

\* top-k routing: the flat sequences in which no token names an expert twice
Routings(ntok, top_k, ne) ==
    {ids \in [0..(ntok * top_k - 1) -> 0..(ne - 1)] :
        \A i, j \in 0..(ntok * top_k - 1) :
            (i < j /\ i \div top_k = j \div top_k) => ids[i] # ids[j]}

\* The calls a caller makes on one routing: the call with every expert
\* local, followed (two experts or more) by the two calls of a split of the
\* experts into shards [0, s) and [s, ne); or the same call made twice, with
\* every expert local or with the shard [s, ne); or one call whose weights
\* reach one expert past num_experts.
Plans(ne) ==
    {<<[E |-> ne, expert_offset |-> 0]>>}
    \cup {<<[E |-> ne, expert_offset |-> 0],
            [E |-> s, expert_offset |-> 0],
            [E |-> ne - s, expert_offset |-> s]>> : s \in 1..(ne - 1)}
    \cup {<<[E |-> ne - s, expert_offset |-> s],
            [E |-> ne - s, expert_offset |-> s]>> : s \in 0..(ne - 1)}
    \cup {<<[E |-> e, expert_offset |-> ne + 1 - e]>> : e \in 1..ne}

---------------------------------------------------------------------------
(* fused_moe *)

\* line 294-298
M_tokens == size(hidden_states, 1)
E_local == size(w1, 1)
full_exp == num_experts = E_local
\* rows of the flattened intermediate buffers
FlatRows == 0..(M_tokens * topk - 1)

\* topk_weights.sum(dim=-1) of token t
weight_sum(tw, t, top_k) ==
    FSumTo([s \in 0..(top_k - 1) |-> tw[<<t, s>>]], top_k)

\* _renormalize, read by flat index (the result is contiguous); dividing by
\* the row sum n/1 makes the sum the denominator
renormalize_weights(tw, top_k, renorm) ==
    [i \in 0..(size(tw, 1) * top_k - 1) |->
        LET t == i \div top_k
            v == tw[<<t, i % top_k>>]
        IN IF renorm THEN [n |-> v.n, d |-> weight_sum(tw, t, top_k).n] ELSE v]

\* silu, as far as the model needs it: not linear, and 0 at 0
silu(x) == FAdd(FMul(x, x), x)
\* silu_and_mul: (rows, 2 * FFN) -> (rows, FFN), silu(gate) * up with the
\* gate in the first half of the columns
silu_and_mul(x) ==
    [p \in {<<q[1], q[2]>> : q \in {y \in DOMAIN x : y[2] < FFN}} |->
        FMul(silu(x[<<p[1], p[2]>>]), x[<<p[1], p[2] + FFN>>])]

\* M_NP2 taken to be the power of two below the token count
launcher_M_NP2_prev_power(ntok) == next_power_of_2(ntok) \div 2

\* fused_moe_kernel_launcher, lines 159-162
launcher_M_NP2(ntok) == Max(M_NP2_MIN, next_power_of_2(ntok))

\* the constexprs of a launch with weight tensor B (E, N, K) under config
launch_of(pass, B, config) ==
    [pass |-> pass,
     E |-> size(B, 1), N |-> size(B, 2), K |-> size(B, 3),
     M_NP2 |-> launcher_M_NP2(M_tokens),
     BLOCK_SIZE_M |-> config.BLOCK_SIZE_M, BLOCK_SIZE_N |-> config.BLOCK_SIZE_N,
     BLOCK_SIZE_K |-> config.BLOCK_SIZE_K, GROUP_SIZE_M |-> config.GROUP_SIZE_M]

\* _grid_fn: the programs of the launch
Grid ==
    (0..(launch.E - 1))
    \X (0..(grid_pids(launch.M_NP2, launch.N, launch.BLOCK_SIZE_M,
                      launch.BLOCK_SIZE_N) - 1))

\* the arguments the launcher hands the kernel: lines 308-322 (gate and
\* up) and 335-349 (down)
KernelArgs ==
    [N |-> launch.N, K |-> launch.K, E |-> launch.E, M_NP2 |-> launch.M_NP2,
     BLOCK_SIZE_M |-> launch.BLOCK_SIZE_M, BLOCK_SIZE_N |-> launch.BLOCK_SIZE_N,
     BLOCK_SIZE_K |-> launch.BLOCK_SIZE_K, GROUP_SIZE_M |-> launch.GROUP_SIZE_M,
     SortedIdx |-> sorted_idx, ExpStart |-> exp_start, ExpEnd |-> exp_end,
     Weights |-> weights, expert_offset |-> expert_offset,
     A |-> IF launch.pass = "gate_up" THEN hidden_states ELSE gate_cache,
     B |-> IF launch.pass = "gate_up" THEN w1 ELSE w2,
     C |-> IF launch.pass = "gate_up" THEN cache1 ELSE cache2,
     ENABLE_WEIGHTS |-> launch.pass = "down",
     top_k |-> IF launch.pass = "gate_up" THEN topk ELSE 1,
     reindex_a |-> launch.pass = "gate_up",
     reindex_c |-> launch.pass = "down"]

\* the weights are renormalized in the caller's tensor
FusedMoeEntry_in_place ==
    /\ pc = "entry"
    /\ weights' = renormalize_weights(topk_weights, topk, renormalize)
    /\ topk_weights' = [x \in DOMAIN topk_weights |-> weights'[x[1] * topk + x[2]]]
    /\ pc' = "sort"
    /\ UNCHANGED <<seg_vars, tile_vars, plan, call_no, outs, segs, hidden_states,
                   w1, w2, topk, expert_offset, renormalize, launch, done, writers,
                   log, cache1, gate_cache, cache2, ret>>

\* fused_moe up to _get_sorted_idx: lines 294-300.  Nothing is validated.
FusedMoeEntry ==
    /\ pc = "entry"
    /\ weights' = renormalize_weights(topk_weights, topk, renormalize)
    /\ pc' = "sort"
    /\ UNCHANGED <<seg_vars, tile_vars, caller_vars, launch, done, writers, log,
                   cache1, gate_cache, cache2, ret>>

\* lines 303-322: intermediate_cache1 is made and the gate/up grid launched
LaunchGateUp ==
    /\ SegmentsBuilt
    /\ call_no > 0
    /\ cache1' = make_intermediate(FlatRows \X (0..(size(w1, 2) - 1)), ~full_exp)
    /\ \E config \in KernelConfigs : launch' = launch_of("gate_up", w1, config)
    /\ done' = {}
    /\ writers' = Empty
    /\ log' = Empty
    /\ pc' = "gate_up"
    /\ UNCHANGED <<seg_vars, tile_vars, caller_vars, weights, gate_cache, cache2, ret>>

\* one program of the grid in flight runs from start to end
KernelProgram(exp_id, pid) ==
    /\ pc \in {"gate_up", "down"}
    /\ <<exp_id, pid>> \in Grid \ done
    /\ \E r \in {fused_moe_kernel(KernelArgs, exp_id, pid)} :
       \E targets \in {{<<st[1], st[2]>> : st \in r.stores}} :
          /\ log' = [u \in DOMAIN log \cup {<<exp_id, pid>>} |->
                        IF u = <<exp_id, pid>>
                        THEN [loads |-> r.loads, stores |-> targets]
                        ELSE log[u]]
          /\ IF r.ub
             THEN /\ pc' = "undefined"
                  /\ UNCHANGED <<done, writers, cache1, cache2>>
             ELSE /\ pc' = pc
                  /\ done' = done \cup {<<exp_id, pid>>}
                  /\ writers' = [x \in DOMAIN writers \cup targets |->
                                    (IF x \in DOMAIN writers THEN writers[x] ELSE {})
                                    \cup (IF x \in targets THEN {<<exp_id, pid>>} ELSE {})]
                  /\ IF launch.pass = "gate_up"
                     THEN cache1' = store_all(cache1, r.stores) /\ cache2' = cache2
                     ELSE cache2' = store_all(cache2, r.stores) /\ cache1' = cache1
    /\ UNCHANGED <<seg_vars, tile_vars, caller_vars, weights, launch, gate_cache, ret>>

\* the device runs any program of the grid that has not run yet
RunProgram ==
    /\ pc \in {"gate_up", "down"}
    /\ \E u \in Grid : KernelProgram(u[1], u[2])

\* the launch is over before the next one starts, as soon as one of its
\* programs has finished
grid_started == done # {}

\* launches on one stream run in order: the next kernel starts when every
\* program of the launch in flight has finished
grid_finished == done = Grid

\* lines 324-349: the gate/up grid has finished; the activation is applied,
\* intermediate_cache2 is made and the down grid launched
Activate ==
    /\ pc = "gate_up"
    /\ grid_finished
    /\ gate_cache' = silu_and_mul(cache1)
    /\ cache2' = make_intermediate(FlatRows \X (0..(size(w2, 2) - 1)), ~full_exp)
    /\ \E config \in KernelConfigs : launch' = launch_of("down", w2, config)
    /\ done' = {}
    /\ writers' = Empty
    /\ log' = Empty
    /\ pc' = "down"
    /\ UNCHANGED <<seg_vars, tile_vars, caller_vars, weights, cache1, ret>>

\* intermediate_cache2.sum(dim=1)
sum_dim1(c2, ntok, top_k) ==
    [x \in (0..(ntok - 1)) \X {y[2] : y \in DOMAIN c2} |->
        FSumTo([s \in 0..(top_k - 1) |-> c2[<<x[1] * top_k + s, x[2]>>]], top_k)]

\* lines 351-352: the down grid has finished; the call returns the sum
Reduce ==
    /\ pc = "down"
    /\ grid_finished
    /\ ret' = sum_dim1(cache2, M_tokens, topk)
    /\ outs' = Append(outs, ret')
    /\ segs' = Append(segs, [sorted_idx |-> sorted_idx, exp_start |-> exp_start,
                             exp_end |-> exp_end])
    /\ pc' = "done"
    /\ UNCHANGED <<seg_vars, tile_vars, plan, call_no, hidden_states, w1, w2,
                   topk_weights, topk, expert_offset, renormalize, weights, launch,
                   done, writers, log, cache1, gate_cache, cache2>>

\* the arguments of call c of the plan
CallArgs(c) ==
    /\ call_no' = c
    /\ w1' = w1_of(plan[c].E, plan[c].expert_offset)
    /\ w2' = w2_of(plan[c].E, plan[c].expert_offset)
    /\ expert_offset' = plan[c].expert_offset

\* the caller makes its next call on the same routing; the buffers of the
\* call that returned are gone
NextCall ==
    /\ pc = "done"
    /\ call_no < Len(plan)
    /\ CallArgs(call_no + 1)
    /\ pc' = "entry"
    /\ sorted_idx' = Empty
    /\ exp_start' = Empty
    /\ exp_end' = Empty
    /\ weights' = Empty
    /\ launch' = Empty
    /\ done' = {}
    /\ writers' = Empty
    /\ log' = Empty
    /\ cache1' = Empty
    /\ gate_cache' = Empty
    /\ cache2' = Empty
    /\ ret' = Empty
    /\ UNCHANGED <<topk_ids, num_experts, se_block, tile_vars, plan, outs, segs,
                   hidden_states, topk_weights, topk, renormalize>>

Init ==
    /\ pc = "entry"
    /\ TileIdle
    /\ se_block = BLOCK
    /\ num_experts \in 1..MaxExperts
    /\ topk \in 1..Min(MaxTopK, num_experts)
    /\ \E ntok \in 1..MaxTokens :
          /\ topk_ids \in Routings(ntok, topk, num_experts)
          /\ hidden_states = hidden_states_of(ntok)
          /\ topk_weights = topk_weights_of(ntok, topk)
    /\ renormalize \in BOOLEAN
    /\ plan \in Plans(num_experts)
    /\ call_no = 1
    /\ w1 = w1_of(plan[1].E, plan[1].expert_offset)
    /\ w2 = w2_of(plan[1].E, plan[1].expert_offset)
    /\ expert_offset = plan[1].expert_offset
    /\ outs = <<>>
    /\ segs = <<>>
    /\ sorted_idx = Empty
    /\ exp_start = Empty
    /\ exp_end = Empty
    /\ weights = Empty
    /\ launch = Empty
    /\ done = {}
    /\ writers = Empty
    /\ log = Empty
    /\ cache1 = Empty
    /\ gate_cache = Empty
    /\ cache2 = Empty
    /\ ret = Empty

Next ==
    \/ FusedMoeEntry
    \/ GetSortedIdx
    \/ \E e \in 0..(num_experts - 1) : StartEndProgram(e)
    \/ LaunchGateUp
    \/ RunProgram
    \/ Activate
    \/ Reduce
    \/ NextCall

Spec == Init /\ [][Next]_vars

---------------------------------------------------------------------------
(* Claims about the SegmentBuilder, checked under SpecSeg *)

L == numel(topk_ids)
Experts == 0..(num_experts - 1)
\* the positions of expert e's range in sorted_idx
Range(e) == exp_start[e]..(exp_end[e] - 1)
\* the flat indices routed to expert e
RoutedTo(e) == {i \in DOMAIN topk_ids : topk_ids[i] = e}

\* C1: once _get_sorted_idx has returned, the range [exp_start[e],
\* exp_end[e]) of sorted_idx holds exactly the flat indices routed to e, its
\* length is the number of assignments routed to e, the ranges of distinct
\* experts do not overlap and every position of [0, L) lies in one range.
C1_SegmentsExact ==
    SegmentsBuilt =>
        /\ \A e \in Experts :
              /\ Range(e) \subseteq 0..(L - 1)
              /\ {sorted_idx[j] : j \in Range(e)} = RoutedTo(e)
              /\ exp_end[e] - exp_start[e] = Cardinality(RoutedTo(e))
        /\ \A e1, e2 \in Experts : e1 # e2 => Range(e1) \cap Range(e2) = {}
        /\ \A j \in 0..(L - 1) : Cardinality({e \in Experts : j \in Range(e)}) = 1

\* two experts own several assignments each, one owns none, and the scan
\* runs over several blocks
C1_Witness ==
    /\ SegmentsBuilt
    /\ L = 4
    /\ se_block = 3
    /\ \E e1, e2, e3 \in Experts :
          /\ e1 # e2
          /\ Cardinality(RoutedTo(e1)) = 2
          /\ Cardinality(RoutedTo(e2)) = 2
          /\ RoutedTo(e3) = {}
          /\ exp_start[e2] = 2

\* C2: sorted_idx is a bijection on [0, L) and the expert ids
\* topk_ids[sorted_idx[j]] are non-decreasing in j.
C2_PermutationSorted ==
    pc = "start_end" =>
        /\ DOMAIN sorted_idx = 0..(L - 1)
        /\ \A i \in 0..(L - 1) :
              Cardinality({j \in 0..(L - 1) : sorted_idx[j] = i}) = 1
        /\ \A j \in 0..(L - 2) :
              topk_ids[sorted_idx[j]] <= topk_ids[sorted_idx[j + 1]]

\* the sort has moved a flat index: the sequence was not already grouped
C2_Witness ==
    /\ pc = "start_end"
    /\ L = 4
    /\ \E j \in 0..(L - 1) : sorted_idx[j] # j
    /\ \E i \in 0..(L - 2) : topk_ids[i] > topk_ids[i + 1]

\* the position of flat index i in sorted_idx
PosOf(i) == CHOOSE j \in DOMAIN sorted_idx : sorted_idx[j] = i

\* C8: the sort is stable: two flat indices i < i' with the same expert keep
\* their order in sorted_idx.
C8_StableSort ==
    pc = "start_end" =>
        \A i, j \in DOMAIN topk_ids :
            (i < j /\ topk_ids[i] = topk_ids[j]) => PosOf(i) < PosOf(j)

\* C9: get_start_end returns, for every expert, the bounds of the reference
\* in its docstring (cumulative sum of the per-expert counts).
C9_MatchesDocstring ==
    SegmentsBuilt =>
        \A e \in Experts :
            /\ exp_start[e] = docstring_exp_start(topk_ids, e)
            /\ exp_end[e] = docstring_exp_end(topk_ids, e)

---------------------------------------------------------------------------
(* Claims about fused_moe, checked under Spec *)

\* the call's weights cover experts inside [0, num_experts)
ConfigValid == expert_offset + E_local <= num_experts
\* the call has every expert local
FullCall == E_local = num_experts /\ expert_offset = 0
\* the global experts the call has weights for
LocalExperts == expert_offset..(expert_offset + E_local - 1)
Tokens == 0..(M_tokens - 1)

\* The naive dense computation on the caller's values: token t through
\* expert e (a global id).
gate_up_ref(t, e, n) ==
    FSumTo([k \in 0..(HIDDEN - 1) |->
               FInt(hidden_value(t, k) * w1_value(e, n, k))], HIDDEN)
act_ref(t, e, j) == FMul(silu(gate_up_ref(t, e, j)), gate_up_ref(t, e, j + FFN))
down_ref(t, e, c) ==
    FSumTo([j \in 0..(FFN - 1) |->
               FMul(act_ref(t, e, j), FInt(w2_value(e, c, j)))], FFN)
\* the gating weight of flat assignment i, renormalized if the call asks
weight_ref(i) ==
    LET t == i \div topk
    IN [n |-> topk_weight_value(t, i % topk),
        d |-> IF renormalize
              THEN FSumTo([s \in 0..(topk - 1) |->
                              FInt(topk_weight_value(t, s))], topk).n
              ELSE 1]
\* the weighted sum over the slots of token t routed to an expert of Local
moe_ref(t, c, Local) ==
    FSumTo([s \in 0..(topk - 1) |->
               LET i == t * topk + s
               IN IF topk_ids[i] \in Local
                  THEN FMul(weight_ref(i), down_ref(t, topk_ids[i], c))
                  ELSE FZero], topk)

\* C3: within one launch no two programs store to the same element of C;
\* with every expert local each element is stored to by exactly one
\* program, in a sharded call by one or none.
C3_DisjointWrites ==
    (pc \in {"gate_up", "down"} /\ ConfigValid) =>
        /\ \A x \in DOMAIN writers : Cardinality(writers[x]) <= 1
        /\ (FullCall /\ done = Grid) =>
              \A x \in DOMAIN KernelArgs.C :
                  x \in DOMAIN writers /\ Cardinality(writers[x]) = 1

\* C4: with every expert local the call returns, for every token, the
\* weighted sum over its slots of down(act(gate_up(hidden_states[t]))) of
\* the slot's expert.  The gate/up pass leaves at sorted position p the
\* unweighted gate/up row of token sorted_idx[p] // top_k under the expert
\* of sorted_idx[p] and loads no gating weight; the down pass leaves at flat
\* row i the down row of i's expert scaled once by i's weight.
C4_MatchesDense ==
    FullCall =>
        /\ pc = "gate_up" =>
              /\ \A u \in DOMAIN log : log[u].loads.Weights = {}
              /\ \A x \in DOMAIN writers :
                    FEq(cache1[x], gate_up_ref(sorted_idx[x[1]] \div topk,
                                               topk_ids[sorted_idx[x[1]]], x[2]))
        /\ pc = "down" =>
              \A x \in DOMAIN writers :
                  FEq(cache2[x], FMul(weight_ref(x[1]),
                                      down_ref(x[1] \div topk, topk_ids[x[1]], x[2])))
        /\ pc = "done" =>
              /\ DOMAIN ret = Tokens \X (0..(HIDDEN - 1))
              /\ \A x \in DOMAIN ret : FEq(ret[x], moe_ref(x[1], x[2], 0..(num_experts - 1)))

\* a full call on two tokens with two slots each has returned, renormalized,
\* and the two tokens got different rows
C4_Witness ==
    /\ FullCall
    /\ pc = "done"
    /\ M_tokens = 2
    /\ topk = 2
    /\ renormalize
    /\ topk_ids[0] # topk_ids[2]
    /\ \E c \in 0..(HIDDEN - 1) : ~FEq(ret[<<0, c>>], ret[<<1, c>>])

\* C5: the outputs of the two shard calls of a split add up, element by
\* element, to the output of the call with every expert local.
C5_ShardsAddUp ==
    Len(outs) = 3 =>
        /\ DOMAIN outs[2] = DOMAIN outs[1]
        /\ DOMAIN outs[3] = DOMAIN outs[1]
        /\ \A x \in DOMAIN outs[1] : FEq(FAdd(outs[2][x], outs[3][x]), outs[1][x])

\* the three calls have returned and some token drew on both shards
C5_Witness ==
    /\ Len(outs) = 3
    /\ plan[2].E = 1
    /\ plan[3].expert_offset = 1
    /\ \E x \in DOMAIN outs[1] : outs[2][x].n # 0 /\ outs[3][x].n # 0

C7_FailsFast ==
    ~ConfigValid => pc \in {"entry", "configuration_error"}

\* the sorted positions of local expert exp_id's segment
SegmentOf(exp_id) ==
    LET e == exp_id + expert_offset
    IN IF e \in DOMAIN exp_start /\ e \in DOMAIN exp_end
       THEN exp_start[e]..(exp_end[e] - 1) ELSE {}
\* the rows of C a program of local expert exp_id may store to in this pass
SegmentRows(exp_id) ==
    IF launch.pass = "gate_up" THEN SegmentOf(exp_id)
    ELSE {sorted_idx[p] : p \in SegmentOf(exp_id) \cap DOMAIN sorted_idx}

\* C11: with expert_offset + E <= num_experts no program leaves its
\* tensors: it loads ExpStart/ExpEnd inside [0, num_experts), SortedIdx and
\* Weights inside [0, L), rows of A inside the rows A has (tokens in the
\* gate/up pass, flat assignments in the down pass), columns inside [0, N),
\* K indices inside [0, K), and stores rows inside [0, L); it stores only
\* rows of its own expert's segment, so lanes at or past exp_end store
\* nothing.
C11_InBounds ==
    ConfigValid =>
        /\ pc # "undefined"
        /\ \A u \in DOMAIN log :
              LET rows_A == IF launch.pass = "gate_up" THEN M_tokens ELSE L
              IN /\ log[u].loads.ExpStart \subseteq 0..(num_experts - 1)
                 /\ log[u].loads.ExpEnd \subseteq 0..(num_experts - 1)
                 /\ log[u].loads.SortedIdx \subseteq 0..(L - 1)
                 /\ log[u].loads.Weights \subseteq 0..(L - 1)
                 /\ \A x \in log[u].loads.A :
                       x[1] \in 0..(rows_A - 1) /\ x[2] \in 0..(launch.K - 1)
                 /\ \A x \in log[u].loads.B :
                       /\ x[1] \in 0..(E_local - 1)
                       /\ x[2] \in 0..(launch.N - 1)
                       /\ x[3] \in 0..(launch.K - 1)
                 /\ \A x \in log[u].stores :
                       x[1] \in 0..(L - 1) /\ x[2] \in 0..(launch.N - 1)
                 /\ {x[1] : x \in log[u].stores} \subseteq SegmentRows(u[1])

\* a down-pass program whose row-tile has a lane past exp_end and whose
\* column tile wraps has loaded its weights and stored
C11_Witness ==
    /\ ConfigValid
    /\ pc = "down"
    /\ launch.BLOCK_SIZE_M = 2
    /\ launch.N % launch.BLOCK_SIZE_N # 0
    /\ \E u \in DOMAIN log :
          /\ Cardinality({x[1] : x \in log[u].stores}) = 1
          /\ log[u].loads.Weights # {}
          /\ u[2] > 0

\* the row-tile of program u of the launch in flight
RowTileOf(u) ==
    <<u[1], tile_of(u[2], cdiv(launch.M_NP2, launch.BLOCK_SIZE_M),
                    cdiv(launch.N, launch.BLOCK_SIZE_N), launch.GROUP_SIZE_M).pid_m>>
\* the row-tiles whose programs have stored to row r of C
RowTilesStoring(r) ==
    {RowTileOf(u) : u \in {v \in DOMAIN log : \E x \in log[v].stores : x[1] = r}}

\* C12: with every expert local, no row of intermediate_cache1 or
\* intermediate_cache2 is ever stored to by two row-tiles, and when the
\* pass has finished every row has been stored to by exactly one row-tile
\* and no element of the buffer is uninitialized; so neither the activation
\* nor the top-k sum reads, or returns, an uninitialized element.
C12_RowsWrittenOnce ==
    FullCall =>
        /\ pc \in {"gate_up", "down"} =>
              /\ \A r \in FlatRows : Cardinality(RowTilesStoring(r)) <= 1
              /\ done = Grid =>
                    /\ \A r \in FlatRows : Cardinality(RowTilesStoring(r)) = 1
                    /\ \A x \in DOMAIN KernelArgs.C : ~IsStale(KernelArgs.C[x])
        /\ pc = "down" =>
              /\ DOMAIN gate_cache = FlatRows \X (0..(FFN - 1))
              /\ \A x \in DOMAIN gate_cache : ~IsStale(gate_cache[x])
        /\ pc = "done" => \A x \in DOMAIN ret : ~IsStale(ret[x])

\* a full call on two tokens with two slots each has returned after a down
\* pass of one-row tiles: four rows, each from a row-tile of its own
C12_Witness ==
    /\ FullCall
    /\ pc = "done"
    /\ M_tokens = 2
    /\ topk = 2
    /\ launch.pass = "down"
    /\ launch.BLOCK_SIZE_M = 1
    /\ Cardinality({RowTileOf(u) : u \in {v \in DOMAIN log : log[v].stores # {}}}) = 4

\* the row flat assignment i has in the destination of the pass in flight
BufferRow(i) == IF launch.pass = "gate_up" THEN PosOf(i) ELSE i
\* the flat assignments whose expert the call has no weights for
NonLocal == {i \in DOMAIN topk_ids : topk_ids[i] \notin LocalExperts}

\* C13: in a sharded call both buffers start out zero (an element no
\* program stored to is zero), no program of either pass stores to the row
\* of a flat assignment whose expert is not local, row i of
\* intermediate_cache2 of such an assignment is zero when the sum is taken,
\* and the call returns the weighted sum over the local experts' slots
\* alone.
C13_NonLocalRowsUntouched ==
    (ConfigValid /\ ~FullCall) =>
        /\ pc \in {"gate_up", "down"} =>
              /\ \A x \in DOMAIN KernelArgs.C \ DOMAIN writers : KernelArgs.C[x] = FZero
              /\ \A i \in NonLocal : \A u \in DOMAIN log : \A x \in log[u].stores :
                    x[1] # BufferRow(i)
        /\ pc \in {"down", "done"} =>
              \A i \in NonLocal : \A c \in 0..(HIDDEN - 1) : cache2[<<i, c>>] = FZero
        /\ pc = "done" =>
              \A x \in DOMAIN ret : FEq(ret[x], moe_ref(x[1], x[2], LocalExperts))

\* the call of the second shard has returned: a token had one slot on the
\* local expert and one on the other, and its output row is not zero
C13_Witness ==
    /\ ConfigValid
    /\ ~FullCall
    /\ expert_offset = 1
    /\ pc = "done"
    /\ topk = 2
    /\ NonLocal # {}
    /\ \E x \in DOMAIN ret : ret[x].n # 0
    /\ \E u \in DOMAIN log : log[u].stores # {}

\* the call made twice has returned twice
CalledTwice == Len(plan) = 2 /\ Len(outs) = 2
\* the expert of the assignment at sorted position p, and its token
ExpertAt(p) == topk_ids[sorted_idx[p]]
TokenAt(p) == sorted_idx[p] \div topk

\* C14: the down pass starts only from a gate/up pass all of whose programs
\* have finished, with gate_cache the activation of the finished
\* intermediate_cache1; so whatever a down program reads from gate_cache is
\* the activated gate/up row of its assignment.  The programs of a pass run
\* in any order, and two calls on the same arguments that sorted alike
\* return the same tensor whatever the orders were.
C14_PassesOrdered ==
    /\ [][pc' = "down" =>
            \/ pc = "down"
            \/ /\ pc = "gate_up"
               /\ done = Grid
               /\ gate_cache' = silu_and_mul(cache1)]_vars
    /\ [](ConfigValid /\ pc = "down" =>
            /\ gate_cache = silu_and_mul(cache1)
            /\ \A u \in DOMAIN log : \A x \in log[u].loads.A :
                  FEq(gate_cache[x], act_ref(TokenAt(x[1]), ExpertAt(x[1]), x[2])))
    /\ [](CalledTwice /\ segs[1].sorted_idx = segs[2].sorted_idx =>
            /\ DOMAIN outs[1] = DOMAIN outs[2]
            /\ \A x \in DOMAIN outs[1] : FEq(outs[1][x], outs[2][x]))

\* a down program has read gate_cache in a launch of several programs, of
\* the second of two calls that sorted alike
C14_Witness ==
    /\ Len(plan) = 2
    /\ call_no = 2
    /\ pc = "down"
    /\ Cardinality(Grid) > 2
    /\ segs[1].sorted_idx = sorted_idx
    /\ \E u \in DOMAIN log : log[u].loads.A # {}
    /\ done # Grid

\* C15: no step of a call changes hidden_states, w1, w2, topk_ids or the
\* caller's topk_weights (the renormalized weights are a tensor of the
\* call's own), and from the launch of the gate/up pass on, whatever
\* expert_offset is, no step changes sorted_idx, exp_start or exp_end.
C15_InputsUnchanged ==
    /\ [][(ConfigValid /\ pc # "done") =>
            /\ hidden_states' = hidden_states
            /\ w1' = w1
            /\ w2' = w2
            /\ topk_ids' = topk_ids
            /\ topk_weights' = topk_weights
            /\ num_experts' = num_experts
            /\ (pc' \in {"gate_up", "down", "done"} =>
                   /\ sorted_idx' = sorted_idx
                   /\ exp_start' = exp_start
                   /\ exp_end' = exp_end)]_vars
    /\ [](ConfigValid /\ pc \notin {"entry", "tiles"} /\ call_no > 0 =>
            /\ topk_weights = topk_weights_of(M_tokens, topk)
            /\ weights = renormalize_weights(topk_weights, topk, renormalize))

\* a renormalizing call of the second shard has returned: its weights are
\* not the caller's, and its programs have stored
C15_Witness ==
    /\ ConfigValid
    /\ pc = "done"
    /\ renormalize
    /\ topk = 2
    /\ expert_offset = 1
    /\ \E i \in DOMAIN weights : ~FEq(weights[i], topk_weights[<<i \div topk, i % topk>>])
    /\ \E u \in DOMAIN log : log[u].stores # {}

\* C16: two calls on the same arguments, whichever of the ascending
\* orders each one's sort returned, get the same exp_start and exp_end and
\* return the same tensor.
C16_TieOrderIrrelevant ==
    CalledTwice =>
        /\ segs[1].exp_start = segs[2].exp_start
        /\ segs[1].exp_end = segs[2].exp_end
        /\ DOMAIN outs[1] = DOMAIN outs[2]
        /\ \A x \in DOMAIN outs[1] : FEq(outs[1][x], outs[2][x])

\* the two calls sorted differently: two assignments of one expert came out
\* in the one order and in the other
C16_Witness ==
    /\ CalledTwice
    /\ plan[1].expert_offset = 0
    /\ segs[1].sorted_idx # segs[2].sorted_idx
    /\ \E e \in DOMAIN segs[1].exp_start : segs[1].exp_end[e] - segs[1].exp_start[e] = 2
    /\ \E x \in DOMAIN outs[1] : outs[1][x].n # 0

\* no token names the same expert in two of its slots
NoRepeatedExpert ==
    \A i, j \in DOMAIN topk_ids :
        (i < j /\ i \div topk = j \div topk) => topk_ids[i] # topk_ids[j]

\* C17: M_NP2 = max(floor, next power of two of the number of tokens) is
\* at least the number of tokens; the launch in flight has that M_NP2, and
\* when no token names an expert twice every local expert's
\* segment is at most M_NP2 long and each of its positions lies in the
\* row-tile of a program of the grid; once the grid has finished, the row
\* of every segment position has been stored.
C17_GridCoversSegments ==
    /\ \A ntok \in 1..MaxLaunchTokens :
          /\ ntok <= launcher_M_NP2(ntok)
          /\ launcher_M_NP2(ntok) < 2 * Max(ntok, M_NP2_MIN)
    /\ (ConfigValid /\ pc \in {"gate_up", "down"} /\ NoRepeatedExpert) =>
        /\ launch.M_NP2 = Max(M_NP2_MIN, next_power_of_2(M_tokens))
        /\ \A exp_id \in 0..(E_local - 1) :
              /\ Cardinality(SegmentOf(exp_id)) <= launch.M_NP2
              /\ \A p \in SegmentOf(exp_id) :
                    \E u \in Grid :
                        LET first == exp_start[exp_id + expert_offset]
                                     + RowTileOf(u)[2] * launch.BLOCK_SIZE_M
                        IN /\ u[1] = exp_id
                           /\ first <= p
                           /\ p < first + launch.BLOCK_SIZE_M
              /\ done = Grid =>
                    \A r \in SegmentRows(exp_id) :
                        \E u \in DOMAIN log : \E x \in log[u].stores : x[1] = r

\* four assignments on a launch with M_NP2 = 2: an expert's segment is as
\* long as M_NP2 and takes two row-tiles, and the grid has finished
C17_Witness ==
    /\ ConfigValid
    /\ pc = "gate_up"
    /\ L = 4
    /\ launch.M_NP2 = 2
    /\ launch.BLOCK_SIZE_M = 1
    /\ \E exp_id \in 0..(E_local - 1) : Cardinality(SegmentOf(exp_id)) = launch.M_NP2
    /\ done = Grid

---------------------------------------------------------------------------
(* Claims about the TileScheduler, checked under SpecTile *)

t_num_pid_m == cdiv(t_in.M_NP2, t_in.BLOCK_SIZE_M)
t_num_pid_n == cdiv(t_in.N, t_in.BLOCK_SIZE_N)
\* every program of the expert's grid row has taken its tile
TilesMapped ==
    /\ pc = "tiles"
    /\ numel(t_map) = t_num_pid_m * t_num_pid_n

\* C10: the map pid -> (pid_m, pid_n) is a bijection from
\* [0, num_pid_m * num_pid_n) onto [0, num_pid_m) x [0, num_pid_n), for
\* every GROUP_SIZE_M and also when the last group is short; a program
\* works only if pid_m * BLOCK_SIZE_M < M and pid_n * BLOCK_SIZE_N < N, so
\* every element of the expert's M x N output lies in the tile of exactly
\* one working program.
C10_TileBijection ==
    pc = "tiles" =>
        /\ \A p \in DOMAIN t_map :
              /\ t_map[p].pid_m \in 0..(t_num_pid_m - 1)
              /\ t_map[p].pid_n \in 0..(t_num_pid_n - 1)
              /\ t_map[p].works =>
                    /\ t_map[p].pid_m * t_in.BLOCK_SIZE_M < t_in.M
                    /\ t_map[p].pid_n * t_in.BLOCK_SIZE_N < t_in.N
        /\ \A p, q \in DOMAIN t_map :
              (p # q) => <<t_map[p].pid_m, t_map[p].pid_n>>
                            # <<t_map[q].pid_m, t_map[q].pid_n>>
        /\ TilesMapped =>
              /\ \A m \in 0..(t_num_pid_m - 1), n \in 0..(t_num_pid_n - 1) :
                    \E p \in DOMAIN t_map :
                        t_map[p].pid_m = m /\ t_map[p].pid_n = n
              /\ \A r \in 0..(t_in.M - 1), c \in 0..(t_in.N - 1) :
                    Cardinality({p \in DOMAIN t_map :
                        /\ t_map[p].works
                        /\ t_map[p].pid_m = r \div t_in.BLOCK_SIZE_M
                        /\ t_map[p].pid_n = c \div t_in.BLOCK_SIZE_N}) = 1

\* a grid of 5 x 2 tiles in groups of 3 row-tiles: the last group is short
\* (2 row-tiles), and some programs work while others are skipped
C10_Witness ==
    /\ TilesMapped
    /\ t_num_pid_m = 5
    /\ t_num_pid_n = 2
    /\ t_in.GROUP_SIZE_M = 3
    /\ \E p, q \in DOMAIN t_map : t_map[p].works /\ ~t_map[q].works
    /\ t_map[9].pid_m = 4

=============================================================================
